---- MODULE Spec2Model ----
(***************************************************************************)
(* A model of the terminal snake game of snake.py: the Game object (snake, *)
(* food, direction), one tick of Game.main_loop, the food spawner's        *)
(* rejection-sampling loop, and the pure helpers the tick is made of.      *)
(*                                                                         *)
(* The specifications:                                                     *)
(*   Spec      a game built by Game.from_curses_window and played by       *)
(*             Game.main_loop with any key input;                          *)
(*   SpecGame  a game built by the constructor Game(snake, food,           *)
(*             init_direction, debug) with well-formed arguments, played   *)
(*             by Game.main_loop;                                          *)
(*   SpecFn    direct calls of the pure functions snake_move and           *)
(*             can_go_further and of Food.random_outside_snake on inputs   *)
(*             drawn from bounded sets;                                    *)
(*   FairFn    SpecFn with the fairness of a running call.                 *)
(***************************************************************************)
EXTENDS Integers, Sequences, FiniteSets

VARIABLES
    window,         \* the curses window: [lines, cols] as getmaxyx() gives them
    snake,          \* Game.snake: sequence of Coord, head first
    food,           \* Game.food.coord (NoCoord before the first food exists)
    direction,      \* Game.direction: the committed direction
    new_direction,  \* main_loop's local new_direction of the last poll
    can_grow,       \* main_loop's local can_grow
    coord,          \* random_outside_snake's local coord: the sample under
                    \* test (NoCoord before a sample is drawn)
    pc,             \* where the program is (see PcValues)
    rendered,       \* TRUE once main_loop has drawn a frame
    food_image,     \* Game.food.image
    food_color,     \* Game.food.color
    image,          \* create_random_food's local image
    color,          \* create_random_food's local color
    choices,        \* the outcomes <<image, color>> of random.choice that a
                    \* behaviour draws from: all of them (Looks) under
                    \* SpecFood, one under the other specifications, whose
                    \* claims read neither the glyph nor the colour (in the
                    \* program only food_draw reads them)
    replaced,       \* how many times main_loop has assigned self.food
    timeout,        \* what calculate_frame_timeout returned
    len_snake       \* len(snake) in calculate_frame_timeout

vars == <<window, snake, food, direction, new_direction, can_grow, coord, pc,
          rendered, food_image, food_color, image, color, choices, replaced,
          timeout, len_snake>>

\* the variables that the steps of random_outside_snake, snake_move,
\* can_go_further and game_over leave alone
food_and_frame == <<food_image, food_color, image, color, choices, replaced,
                    timeout, len_snake>>

\* Python's None, where a Direction is expected
None == "None"

\* Python's None (or an unbound name), where a Coord is expected
NoCoord == [none |-> TRUE]

\* an unbound name, where a float is expected
NoFloat == [none |-> TRUE]

----------------------------------------------------------------------------
(* Bounds of the model *)

\* the snake is not grown beyond this length
MaxLen == 5

\* SpecFn: the functions are called on snakes of 1..FnMaxLen segments
FnMaxLen == 3

\* SpecFrame: calculate_frame_timeout is called on snakes of
\* 1..FrameMaxLen segments, and on those of LongLengths
FrameMaxLen == 40

----------------------------------------------------------------------------
(* Constants of the program *)

BORDER == 0

FOOD_BORDER == 5

UP == "UP"
DOWN == "DOWN"
LEFT == "LEFT"
RIGHT == "RIGHT"

Direction == {UP, DOWN, LEFT, RIGHT}

\* key codes: the four arrow keys, h j k l, some other key, and no key
\* (getch() gives -1 under nodelay)
\* the characters of the string literal that create_random_food gives to
\* random.choice, the three that are not ASCII by their code points
Images == {"%", "$", "#", "U+00E2", "U+201E", "U+2013", "8"}

RED == "RED"
YELLOW == "YELLOW"
GREEN == "GREEN"
WHITE == "WHITE"

\* the list that create_random_food gives to random.choice
Colors == {RED, YELLOW, GREEN, WHITE}

\* every <<image, color>> that create_random_food can choose
Looks == Images \X Colors

\* one of them
OneLook == {<<"%", RED>>}

KEY_UP == "KEY_UP"
KEY_DOWN == "KEY_DOWN"
KEY_LEFT == "KEY_LEFT"
KEY_RIGHT == "KEY_RIGHT"
KEY_H == "h"
KEY_J == "j"
KEY_K == "k"
KEY_L == "l"
KEY_OTHER == "q"
NO_KEY == "ERR"
\* the key code 0, the only value of getch() that `if window.getch()' takes
\* as false
KEY_NUL == "NUL"

Keys == {KEY_UP, KEY_DOWN, KEY_LEFT, KEY_RIGHT, KEY_H, KEY_J, KEY_K, KEY_L,
         KEY_OTHER, NO_KEY}

----------------------------------------------------------------------------
(* Geometry *)

Coord(y, x) == [y |-> y, x |-> x]

\* Coord.__add__
CoordAdd(a, b) == Coord(a.y + b.y, a.x + b.x)

\* from_direction with a step of two columns to the right
from_direction_two_right(d) ==
    IF d = UP THEN Coord(0 - 1, 0)
    ELSE IF d = DOWN THEN Coord(1, 0)
    ELSE IF d = LEFT THEN Coord(0, 0 - 1)
    ELSE IF d = RIGHT THEN Coord(0, 2)
    ELSE Coord(0, 0)

\* from_direction with the rows counted upwards: UP adds a row, DOWN takes
\* one away
from_direction_rows_upwards(d) ==
    IF d = UP THEN Coord(1, 0)
    ELSE IF d = DOWN THEN Coord(0 - 1, 0)
    ELSE IF d = LEFT THEN Coord(0, 0 - 1)
    ELSE IF d = RIGHT THEN Coord(0, 1)
    ELSE Coord(0, 0)

\* Coord.from_direction: the unit vector of a direction, (0,0) for anything
\* that is not one of the four directions
from_direction(d) ==
    IF d = UP THEN Coord(0 - 1, 0)
    ELSE IF d = DOWN THEN Coord(1, 0)
    ELSE IF d = LEFT THEN Coord(0, 0 - 1)
    ELSE IF d = RIGHT THEN Coord(0, 1)
    ELSE Coord(0, 0)

\* is_opposite without its two horizontal cases
is_opposite_vertical_only(self, other) ==
    \/ self = UP /\ other = DOWN
    \/ self = DOWN /\ other = UP

\* Direction.is_opposite
is_opposite(self, other) ==
    \/ self = UP /\ other = DOWN
    \/ self = DOWN /\ other = UP
    \/ self = LEFT /\ other = RIGHT
    \/ self = RIGHT /\ other = LEFT

\* get_window_max_yx: the largest row and column of the window
get_window_max_yx(w) == [max_y |-> w.lines - 1, max_x |-> w.cols - 1]

\* get_window_center
get_window_center(w) ==
    Coord(get_window_max_yx(w).max_y \div 2, get_window_max_yx(w).max_x \div 2)

\* `coord in snake' on a Python list
InSnake(c, s) == \E i \in 1..Len(s) : s[i] = c

\* random_inside_window that samples with the default border BORDER,
\* whatever border it is given
random_inside_window_default_border(w, border) ==
    { Coord(y, x) : y \in BORDER..(get_window_max_yx(w).max_y - BORDER),
                    x \in BORDER..(get_window_max_yx(w).max_x - BORDER) }

\* the outcomes of Coord.random_inside_window(window, border): every pair
\* of randint(border, max_y - border) and randint(border, max_x - border)
random_inside_window(w, border) ==
    { Coord(y, x) : y \in border..(get_window_max_yx(w).max_y - border),
                    x \in border..(get_window_max_yx(w).max_x - border) }

\* random.randint(a, b) raises ValueError when a > b; randint for y is
\* called first, then randint for x
randint_raises(w, border) ==
    \/ border > get_window_max_yx(w).max_y - border
    \/ border > get_window_max_yx(w).max_x - border

----------------------------------------------------------------------------
(* Input *)

\* get_direction: the direction of the polled key, None for any other key
get_direction(key) ==
    IF key \in {KEY_UP, KEY_K} THEN UP
    ELSE IF key \in {KEY_DOWN, KEY_J} THEN DOWN
    ELSE IF key \in {KEY_RIGHT, KEY_L} THEN RIGHT
    ELSE IF key \in {KEY_LEFT, KEY_H} THEN LEFT
    ELSE None

\* a control step without the test `not new_direction.is_opposite(...)'
commit_direction_unchecked(nd, cur) ==
    IF nd # None THEN nd ELSE cur

\* main_loop, the control step: the direction committed after polling nd
commit_direction(nd, cur) ==
    IF nd # None /\ ~is_opposite(nd, cur) THEN nd ELSE cur

----------------------------------------------------------------------------
(* Snake model and collision checks *)

\* list.pop(-1)
Front(s) == SubSeq(s, 1, Len(s) - 1)

\* snake_move that never drops the tail
snake_move_always_grows(s, d, grow) ==
    LET head == CoordAdd(s[1], from_direction(d)) IN
    IF head = s[1] THEN s
    ELSE <<head>> \o s

\* snake_move that drops the tail also when can_grow is set
snake_move_never_grows(s, d, grow) ==
    LET head == CoordAdd(s[1], from_direction(d)) IN
    IF head = s[1] THEN s
    ELSE Front(<<head>> \o s)

\* snake_move: the snake after the call
snake_move(s, d, grow) ==
    LET head == CoordAdd(s[1], from_direction(d)) IN
    IF head = s[1] THEN s
    ELSE IF grow THEN <<head>> \o s
    ELSE Front(<<head>> \o s)

\* a food check that takes every cell for the food's
can_eat_food_anywhere(s, f) == TRUE

\* can_eat_food
can_eat_food(s, f) == s[1] = f

\* can_go_further without the test of the last row
can_go_further_no_last_row(w, s, d) ==
    LET next_head_coord == CoordAdd(s[1], from_direction(d))
        m == get_window_max_yx(w)
    IN ~ \/ next_head_coord.y < BORDER
         \/ next_head_coord.x < BORDER
         \/ next_head_coord.x > m.max_x - BORDER
         \/ InSnake(next_head_coord, s)

\* can_go_further that takes the tail cell as free, as it is after the next
\* move of a snake that does not grow
can_go_further_tail_free(w, s, d) ==
    LET next_head_coord == CoordAdd(s[1], from_direction(d))
        m == get_window_max_yx(w)
    IN ~ \/ next_head_coord.y < BORDER
         \/ next_head_coord.y > m.max_y - BORDER
         \/ next_head_coord.x < BORDER
         \/ next_head_coord.x > m.max_x - BORDER
         \/ InSnake(next_head_coord, Front(s))

\* can_go_further
can_go_further(w, s, d) ==
    LET next_head_coord == CoordAdd(s[1], from_direction(d))
        m == get_window_max_yx(w)
    IN ~ \/ next_head_coord.y < BORDER
         \/ next_head_coord.y > m.max_y - BORDER
         \/ next_head_coord.x < BORDER
         \/ next_head_coord.x > m.max_x - BORDER
         \/ InSnake(next_head_coord, s)

----------------------------------------------------------------------------
(* Program positions *)

\* inside Food.random_outside_snake, called by Game.from_curses_window
AtConstruct == "from_curses_window"
\* at the top of main_loop's while loop, between two ticks
Running == "Running"
\* inside Food.random_outside_snake, called by main_loop (the snake eats)
AtEat == "create_random_food"
\* main_loop has left the loop: game_over()
GameOver == "GameOver"
\* game_over() has returned, and main_loop with it
Exited == "exited"
\* random.randint raised ValueError, which nothing catches
Raised == "ValueError"
\* SpecFn: a function is about to be called / has returned
CallMove == "call snake_move"
CallFurther == "call can_go_further"
CallSpawn == "call random_outside_snake"
MoveReturned == "snake_move returned"
RetTrue == "can_go_further returned True"
RetFalse == "can_go_further returned False"
SpawnReturned == "random_outside_snake returned"
CallTimeout == "call calculate_frame_timeout"
TimeoutReturned == "calculate_frame_timeout returned"

Spawning == {AtConstruct, AtEat, CallSpawn}

----------------------------------------------------------------------------
(* Food.random_outside_snake: the loop `while True', in two steps per       *)
(* iteration: draw a sample, then test it                                  *)

\* a test of the sample against the head alone
sample_rejected_head_only(c, s) == c = s[1]

\* the sample is rejected: `if coord in snake: continue'
sample_rejected(c, s) == InSnake(c, s)

\* coord = Coord.random_inside_window(window, border), when randint
\* raises: the window has no row or no column between the margins
SpawnRaise ==
    /\ pc \in Spawning
    /\ coord = NoCoord
    /\ randint_raises(window, FOOD_BORDER)
    /\ pc' = Raised
    /\ UNCHANGED <<window, snake, food, direction, new_direction, can_grow,
                   coord, rendered>>
    /\ UNCHANGED food_and_frame

\* coord = Coord.random_inside_window(window, border)
SpawnSample ==
    /\ pc \in Spawning
    /\ coord = NoCoord
    /\ ~randint_raises(window, FOOD_BORDER)
    /\ coord' \in random_inside_window(window, FOOD_BORDER)
    /\ UNCHANGED <<window, snake, food, direction, new_direction, can_grow,
                   pc, rendered>>
    /\ UNCHANGED food_and_frame

\* `if coord in snake: continue': the loop goes round again
SpawnContinue ==
    /\ pc \in Spawning
    /\ coord # NoCoord
    /\ sample_rejected(coord, snake)
    /\ coord' = NoCoord
    /\ UNCHANGED <<window, snake, food, direction, new_direction, can_grow,
                   pc, rendered>>
    /\ UNCHANGED food_and_frame

\* `return coord' is reached
SpawnReturns == coord # NoCoord /\ ~sample_rejected(coord, snake)

----------------------------------------------------------------------------
(* Python's float: IEEE 754 binary64, as far as calculate_frame_timeout     *)
(* needs it. A positive float is [e, m]: m is the 53 bits of the           *)
(* significand, first bit 1, and the value is 2^e * m[1].m[2]...m[53].     *)
(* Every operation rounds to nearest, ties to even.                        *)

\* the number of bits of a significand
Precision == 53

\* n zeros
Zeros(n) == [i \in 1..n |-> 0]

\* the least p with 2^p >= d
RECURSIVE CeilLog2(_)
CeilLog2(d) == IF d <= 1 THEN 0 ELSE 1 + CeilLog2((d + 1) \div 2)

\* k steps of the long division of r by d (r < d): the first k bits of r / d
\* after the point, and the remainder (the first half of the steps, then
\* the second half from the remainder of the first)
RECURSIVE DivBits(_, _, _)
DivBits(r, d, k) ==
    IF k = 0 THEN [q |-> <<>>, r |-> r]
    ELSE IF k = 1
    THEN IF 2 * r >= d THEN [q |-> <<1>>, r |-> 2 * r - d]
         ELSE [q |-> <<0>>, r |-> 2 * r]
    ELSE LET first == DivBits(r, d, k \div 2)
             second == DivBits(first.r, d, k - k \div 2)
         IN [q |-> first.q \o second.q, r |-> second.r]

\* the sum of the bits lo..hi of a and of b (bit hi the last) and the carry
\* c: its bits s and the carry out (the right half, then the left half with
\* the carry of the right)
RECURSIVE AddBits(_, _, _, _, _)
AddBits(a, b, lo, hi, c) ==
    IF lo > hi THEN [s |-> <<>>, c |-> c]
    ELSE IF lo = hi
    THEN [s |-> <<(a[lo] + b[lo] + c) % 2>>, c |-> (a[lo] + b[lo] + c) \div 2]
    ELSE LET mid == (lo + hi) \div 2
             right == AddBits(a, b, mid + 1, hi, c)
             left == IF right.c = 1 THEN AddBits(a, b, lo, mid, 1)
                     ELSE AddBits(a, b, lo, mid, 0)
         IN [s |-> left.s \o right.s, c |-> left.c]

\* 2^e * bits[1].bits[2]... (bits[1] = 1, at least Precision bits; sticky
\* says that the exact value has more behind them) rounded to a float
RoundToFloat(bits, sticky, e) ==
    LET kept == SubSeq(bits, 1, Precision)
        round_bit == IF Len(bits) > Precision THEN bits[Precision + 1] ELSE 0
        more == sticky \/ \E i \in (Precision + 2)..Len(bits) : bits[i] = 1
        up == round_bit = 1 /\ (more \/ kept[Precision] = 1)
        next == AddBits(kept, Zeros(Precision), 1, Precision, 1)
    IN IF ~up THEN [e |-> e, m |-> kept]
       ELSE IF next.c = 1
            THEN [e |-> e + 1, m |-> <<1>> \o SubSeq(next.s, 1, Precision - 1)]
            ELSE [e |-> e, m |-> next.s]

\* the float 1 / d of an int d >= 1 (Python's true division of ints is
\* correctly rounded)
float_one_over(d) ==
    LET p == CeilLog2(d)
        division == DivBits(2^p - d, d, Precision)
    IN RoundToFloat(<<1>> \o division.q, division.r # 0, -p)

\* the float a * 2^k: exact
float_scale(a, k) == [e |-> a.e + k, m |-> a.m]

\* the float x + y
float_add(x, y) ==
    LET big == IF x.e >= y.e THEN x ELSE y
        small == IF x.e >= y.e THEN y ELSE x
        shift == big.e - small.e
        sum == AddBits(big.m \o Zeros(shift), Zeros(shift) \o small.m,
                       1, Precision + shift, 0)
    IN IF sum.c = 1
       THEN RoundToFloat(<<1>> \o sum.s, FALSE, big.e + 1)
       ELSE RoundToFloat(sum.s, FALSE, big.e)

\* a < b
float_less(a, b) ==
    \/ a.e < b.e
    \/ /\ a.e = b.e
       /\ \E i \in 1..Precision :
              /\ a.m[i] < b.m[i]
              /\ \A j \in 1..(i - 1) : a.m[j] = b.m[j]

\* TIC = 1 / 6
TIC == float_one_over(6)

\* calculate_frame_timeout(snake, direction) for a snake of n segments:
\*   horizontal_correction = 0.5 if direction in Direction.horizontal() else 1
\*   snake_size_correction = 1 / (len(snake) * 2)
\*   return TIC * horizontal_correction + snake_size_correction
calculate_frame_timeout(n, d) ==
    LET horizontal_correction == IF d \in {LEFT, RIGHT} THEN -1 ELSE 0
        snake_size_correction == float_one_over(n * 2)
    IN float_add(float_scale(TIC, horizontal_correction),
                 snake_size_correction)

----------------------------------------------------------------------------
(* The state *)

\* window is what getmaxyx() gives; snake is Game.snake, a non-empty list
\* of Coord; food is Game.food.coord; direction is Game.direction;
\* new_direction and can_grow are main_loop's locals; coord is
\* random_outside_snake's local; pc is the program's position; food_image
\* and food_color are Game.food's other fields; image and color are
\* create_random_food's locals (None outside the call); choices restricts
\* random.choice; replaced counts the assignments of self.food in
\* main_loop; timeout is calculate_frame_timeout's result and len_snake the
\* length of its argument (0 outside a call)
TypeOK ==
    /\ window.lines \in Nat /\ window.cols \in Nat
    /\ Len(snake) >= 1
    /\ \A i \in 1..Len(snake) : snake[i].y \in Int /\ snake[i].x \in Int
    /\ food = NoCoord \/ (food.y \in Int /\ food.x \in Int)
    /\ direction \in Direction
    /\ new_direction \in Direction \cup {None}
    /\ can_grow \in BOOLEAN
    /\ coord = NoCoord \/ (coord.y \in Int /\ coord.x \in Int)
    /\ pc \in {AtConstruct, Running, AtEat, GameOver, Exited, Raised, CallMove,
               CallFurther, CallSpawn, MoveReturned, RetTrue, RetFalse,
               SpawnReturned, CallTimeout, TimeoutReturned}
    /\ rendered \in BOOLEAN
    /\ food_image \in Images \cup {None}
    /\ food_color \in Colors \cup {None}
    /\ image \in Images \cup {None}
    /\ color \in Colors \cup {None}
    /\ choices \subseteq Looks
    /\ replaced \in Nat
    /\ timeout = NoFloat \/ (timeout.e \in Int /\ Len(timeout.m) = Precision)
    /\ len_snake \in Nat

----------------------------------------------------------------------------
(* Game.main_loop: one tick *)

\* main_loop without the `break': a snake that cannot go further stays
\* where it is and the loop goes on
MoveAndCheck_no_break(s, d, grow) ==
    /\ snake' = IF can_go_further(window, s, d) THEN snake_move(s, d, grow)
                ELSE s
    /\ pc' = Running
    /\ rendered' = TRUE

\* main_loop that calls can_go_further on the snake before snake_move
\* (check, then commit)
MoveAndCheck_check_first(s, d, grow) ==
    /\ snake' = snake_move(s, d, grow)
    /\ IF can_go_further(window, s, d)
       THEN pc' = Running /\ rendered' = TRUE
       ELSE pc' = GameOver /\ rendered' = rendered

\* main_loop after the food check: snake_move, then can_go_further on the
\* moved snake; either break (game over) or draw the frame
MoveAndCheck(s, d, grow) ==
    /\ snake' = snake_move(s, d, grow)
    /\ IF can_go_further(window, snake', d)
       THEN pc' = Running /\ rendered' = TRUE
       ELSE pc' = GameOver /\ rendered' = rendered

\* a tick in which the head is not on the food
Tick(key) ==
    /\ pc = Running
    /\ new_direction' = get_direction(key)
    /\ direction' = commit_direction(new_direction', direction)
    /\ ~can_eat_food(snake, food)
    /\ can_grow' = FALSE
    /\ MoveAndCheck(snake, direction', FALSE)
    /\ UNCHANGED <<window, food, coord>>
    /\ UNCHANGED food_and_frame

\* a tick in which the head is on the food, up to the call of
\* Food.random_outside_snake: create_random_food has chosen the image and
\* the color
TickEat(key) ==
    /\ pc = Running
    /\ new_direction' = get_direction(key)
    /\ direction' = commit_direction(new_direction', direction)
    /\ can_eat_food(snake, food)
    /\ Len(snake) < MaxLen
    /\ can_grow' = TRUE
    /\ \E look \in choices : image' = look[1] /\ color' = look[2]
    /\ pc' = AtEat
    /\ UNCHANGED <<window, snake, food, coord, rendered>>
    /\ UNCHANGED <<food_image, food_color, choices, replaced, timeout,
                   len_snake>>

\* random_outside_snake returns to main_loop: the new food replaces the old
\* one and the tick goes on with snake_move and can_go_further
EatReturn ==
    /\ pc = AtEat
    /\ SpawnReturns
    /\ food' = coord
    /\ food_image' = image
    /\ food_color' = color
    /\ replaced' = replaced + 1
    /\ coord' = NoCoord
    /\ image' = None
    /\ color' = None
    /\ MoveAndCheck(snake, direction, can_grow)
    /\ UNCHANGED <<window, direction, new_direction, can_grow>>
    /\ UNCHANGED <<choices, timeout, len_snake>>

----------------------------------------------------------------------------
(* game_over: the loop that waits for a key *)

\* a game over screen that starts the loop of main_loop again on a key
game_over_restarts(key) == IF key # KEY_NUL THEN Running ELSE GameOver

\* game_over: where the program is after getch() has given key; `break' on
\* every key code but 0
game_over(key) == IF key # KEY_NUL THEN Exited ELSE GameOver

\* one getch() of game_over's loop (the window is blocking by now)
GameOverKey ==
    /\ pc = GameOver
    /\ \E key \in Keys \cup {KEY_NUL} : pc' = game_over(key)
    /\ UNCHANGED <<window, snake, food, direction, new_direction, can_grow,
                   coord, rendered>>
    /\ UNCHANGED food_and_frame

----------------------------------------------------------------------------
(* Game.from_curses_window *)

Windows == { [lines |-> 10, cols |-> 10], [lines |-> 11, cols |-> 11],
             [lines |-> 11, cols |-> 12], [lines |-> 12, cols |-> 12] }

\* from_curses_window up to the call of Food.random_outside_snake:
\* create_random_food has chosen the image and the color
Init ==
    /\ window \in Windows
    /\ snake = <<get_window_center(window)>>
    /\ food = NoCoord
    /\ direction = DOWN
    /\ new_direction = None
    /\ can_grow = FALSE
    /\ coord = NoCoord
    /\ pc = AtConstruct
    /\ rendered = FALSE
    /\ food_image = None
    /\ food_color = None
    /\ choices = OneLook
    /\ \E look \in choices : image = look[1] /\ color = look[2]
    /\ replaced = 0
    /\ timeout = NoFloat
    /\ len_snake = 0

\* random_outside_snake returns to from_curses_window: the game is built
ConstructReturn ==
    /\ pc = AtConstruct
    /\ SpawnReturns
    /\ food' = coord
    /\ food_image' = image
    /\ food_color' = color
    /\ coord' = NoCoord
    /\ image' = None
    /\ color' = None
    /\ pc' = Running
    /\ UNCHANGED <<window, snake, direction, new_direction, can_grow,
                   rendered>>
    /\ UNCHANGED <<choices, replaced, timeout, len_snake>>

Next ==
    \/ SpawnRaise
    \/ SpawnSample
    \/ SpawnContinue
    \/ ConstructReturn
    \/ \E key \in Keys : Tick(key)
    \/ \E key \in Keys : TickEat(key)
    \/ EatReturn
    \/ GameOverKey

Spec == Init /\ [][Next]_vars

----------------------------------------------------------------------------
(* The scheduling of main_loop *)

\* a step of from_curses_window or of main_loop's loop: anything but
\* game_over's wait for a key
LoopStep ==
    \/ SpawnRaise
    \/ SpawnSample
    \/ SpawnContinue
    \/ ConstructReturn
    \/ \E key \in Keys : Tick(key)
    \/ \E key \in Keys : TickEat(key)
    \/ EatReturn

\* The program keeps running: time.sleep returns and the next tick starts,
\* and a call that can go on does (weak fairness of the steps of the loop).
\* Nothing is assumed of the keys, nor of the samples of the food spawner.
FairSpec == Spec /\ WF_vars(LoopStep)

----------------------------------------------------------------------------
(* Game.__init__: a game built from given arguments *)

\* every cell of the window
Cells(w) ==
    { Coord(y, x) : y \in 0..get_window_max_yx(w).max_y,
                    x \in 0..get_window_max_yx(w).max_x }

\* the snakes given to the constructor: every one-segment snake of the
\* window, and a three-segment snake heading right along row 3
CtorSnakes(w) ==
    { <<c>> : c \in Cells(w) } \cup { <<Coord(3, 3), Coord(3, 2), Coord(3, 1)>> }

\* the food coordinates given to the constructor: the cells of rows and
\* columns 4..7, around the centre of every window of Windows
CtorFoods == { Coord(y, x) : y \in 4..7, x \in 4..7 }

InitGame ==
    /\ window \in Windows
    /\ snake \in CtorSnakes(window)
    /\ food \in { c \in CtorFoods : ~InSnake(c, snake) }
    /\ direction \in Direction
    /\ new_direction = None
    /\ can_grow = FALSE
    /\ coord = NoCoord
    /\ pc = Running
    /\ rendered = FALSE
    /\ choices = OneLook
    /\ \E look \in choices : food_image = look[1] /\ food_color = look[2]
    /\ image = None
    /\ color = None
    /\ replaced = 0
    /\ timeout = NoFloat
    /\ len_snake = 0

NextGame ==
    \/ SpawnRaise
    \/ SpawnSample
    \/ SpawnContinue
    \/ \E key \in Keys : Tick(key)
    \/ \E key \in Keys : TickEat(key)
    \/ EatReturn
    \/ GameOverKey

SpecGame == InitGame /\ [][NextGame]_vars

----------------------------------------------------------------------------
(* Game.from_curses_window, with every glyph and colour of the food *)

\* a window with no cell for the food, and one with two
FoodWindows == { [lines |-> 10, cols |-> 10], [lines |-> 11, cols |-> 12] }

\* from_curses_window up to the call of Food.random_outside_snake:
\* create_random_food has chosen the image and the color
InitFood ==
    /\ window \in FoodWindows
    /\ snake = <<get_window_center(window)>>
    /\ food = NoCoord
    /\ direction = DOWN
    /\ new_direction = None
    /\ can_grow = FALSE
    /\ coord = NoCoord
    /\ pc = AtConstruct
    /\ rendered = FALSE
    /\ food_image = None
    /\ food_color = None
    /\ choices = Looks
    /\ \E look \in choices : image = look[1] /\ color = look[2]
    /\ replaced = 0
    /\ timeout = NoFloat
    /\ len_snake = 0

SpecFood == InitFood /\ [][Next]_vars

----------------------------------------------------------------------------
(* Direct calls of snake_move, can_go_further and random_outside_snake *)

\* every list of 1..FnMaxLen coordinates of C (segments may repeat and need
\* not be adjacent: the functions take any list)
SnakesOver(C) == UNION { [1..n -> C] : n \in 1..FnMaxLen }

\* small windows, for can_go_further
FnWindows == { [lines |-> l, cols |-> c] : l \in 1..3, c \in 1..3 }

\* the cells of rows and columns 5..6: the sampling regions of Windows
SpawnCells == { Coord(y, x) : y \in 5..6, x \in 5..6 }

InitFn ==
    /\ pc \in {CallMove, CallFurther, CallSpawn}
    /\ window \in IF pc = CallSpawn THEN Windows ELSE FnWindows
    /\ snake \in IF pc = CallSpawn THEN SnakesOver(SpawnCells)
                 ELSE SnakesOver(Cells(window))
    /\ direction \in Direction
    /\ can_grow \in BOOLEAN
    /\ food = NoCoord
    /\ new_direction = None
    /\ coord = NoCoord
    /\ rendered = FALSE
    /\ food_image = None
    /\ food_color = None
    /\ image = None
    /\ color = None
    /\ choices = OneLook
    /\ replaced = 0
    /\ timeout = NoFloat
    /\ len_snake = 0

\* snake_move(snake, direction, can_grow)
FnSnakeMove ==
    /\ pc = CallMove
    /\ snake' = snake_move(snake, direction, can_grow)
    /\ pc' = MoveReturned
    /\ UNCHANGED <<window, food, direction, new_direction, can_grow, coord,
                   rendered>>
    /\ UNCHANGED food_and_frame

\* can_go_further(window, snake, direction)
FnCanGoFurther ==
    /\ pc = CallFurther
    /\ pc' = IF can_go_further(window, snake, direction) THEN RetTrue
             ELSE RetFalse
    /\ UNCHANGED <<window, snake, food, direction, new_direction, can_grow,
                   coord, rendered>>
    /\ UNCHANGED food_and_frame

\* Food.random_outside_snake(window, snake) returns its sample
FnSpawnReturn ==
    /\ pc = CallSpawn
    /\ SpawnReturns
    /\ food' = coord
    /\ coord' = NoCoord
    /\ pc' = SpawnReturned
    /\ UNCHANGED <<window, snake, direction, new_direction, can_grow,
                   rendered>>
    /\ UNCHANGED food_and_frame

NextFn ==
    \/ FnSnakeMove
    \/ FnCanGoFurther
    \/ SpawnRaise
    \/ SpawnSample
    \/ SpawnContinue
    \/ FnSpawnReturn

SpecFn == InitFn /\ [][NextFn]_vars

\* a sample off the snake is drawn
SampleFree == SpawnSample /\ ~sample_rejected(coord', snake)

\* The called function keeps running (weak fairness of its steps), and a
\* sample off the snake, which has a positive probability at every
\* iteration in which there is one, is eventually drawn (strong fairness).
FairFn == SpecFn /\ WF_vars(NextFn) /\ SF_vars(SampleFree)

----------------------------------------------------------------------------
(* Direct calls of calculate_frame_timeout. main_loop calls it after every  *)
(* frame and sleeps for the result, which no other step of the loop reads: *)
(* a tick leaves timeout alone.                                            *)

\* lengths that no arena of this model holds: the last at which the frame
\* delay of a vertical, and of a horizontal, direction still differs from
\* that of the next length, and the length after each
LongLengths == {134225919, 134225920, 189813284, 189813285}

\* the lengths of the snakes given to calculate_frame_timeout
Lengths == (1..FrameMaxLen) \cup LongLengths

\* the call holds the length of its snake in len_snake, the only thing of
\* the snake that calculate_frame_timeout reads, and not the segments
InitFrame ==
    /\ pc = CallTimeout
    /\ len_snake \in Lengths
    /\ direction \in Direction
    /\ window = [lines |-> 1, cols |-> 1]
    /\ snake = <<Coord(0, 0)>>
    /\ can_grow = FALSE
    /\ food = NoCoord
    /\ new_direction = None
    /\ coord = NoCoord
    /\ rendered = FALSE
    /\ food_image = None
    /\ food_color = None
    /\ image = None
    /\ color = None
    /\ choices = OneLook
    /\ replaced = 0
    /\ timeout = NoFloat

\* calculate_frame_timeout(snake, direction)
FnFrameTimeout ==
    /\ pc = CallTimeout
    /\ timeout' = calculate_frame_timeout(len_snake, direction)
    /\ pc' = TimeoutReturned
    /\ UNCHANGED <<window, snake, food, direction, new_direction, can_grow,
                   coord, rendered, food_image, food_color, image, color,
                   choices, replaced, len_snake>>

NextFrame == FnFrameTimeout

SpecFrame == InitFrame /\ [][NextFrame]_vars

----------------------------------------------------------------------------
(* Vocabulary of the claims, stated without the operators of the model *)

\* the opposite of a direction
Opposite(d) ==
    CASE d = UP -> DOWN
      [] d = DOWN -> UP
      [] d = LEFT -> RIGHT
      [] d = RIGHT -> LEFT

\* the cell next to c in direction d
Step(c, d) ==
    CASE d = UP -> [y |-> c.y - 1, x |-> c.x]
      [] d = DOWN -> [y |-> c.y + 1, x |-> c.x]
      [] d = LEFT -> [y |-> c.y, x |-> c.x - 1]
      [] d = RIGHT -> [y |-> c.y, x |-> c.x + 1]

\* c lies in the arena [BORDER, max_y - BORDER] x [BORDER, max_x - BORDER],
\* max_y and max_x being the last row and column of the window
InArena(c) ==
    /\ BORDER <= c.y /\ c.y <= (window.lines - 1) - BORDER
    /\ BORDER <= c.x /\ c.x <= (window.cols - 1) - BORDER

\* the cells the snake s occupies
Segments(s) == { s[i] : i \in 1..Len(s) }

\* a step that ends a tick of main_loop: the tick started at the top of the
\* loop or resumes from the food spawner, and ends at the top of the loop
\* (frame drawn) or in game over
TickEnds == pc \in {Running, AtEat} /\ pc' \in {Running, GameOver}

----------------------------------------------------------------------------
(* C1 *)

\* C1 (as claimed): in every Running state of a game built by
\* from_curses_window the segments of the snake are pairwise distinct.
C1_SegmentsDistinct ==
    pc = Running =>
        \A i, j \in 1..Len(snake) : i # j => snake[i] # snake[j]

----------------------------------------------------------------------------
(* C2 *)

\* the direction a key stands for: the arrow keys and h j k l; no other key
\* stands for a direction
KeyDirection(k) ==
    CASE k \in {KEY_UP, KEY_K} -> UP
      [] k \in {KEY_DOWN, KEY_J} -> DOWN
      [] k \in {KEY_LEFT, KEY_H} -> LEFT
      [] k \in {KEY_RIGHT, KEY_L} -> RIGHT
      [] OTHER -> None

\* C2: in every tick, the committed direction after the input step is the
\* polled direction if a recognised key was polled and its direction is not
\* the opposite of the committed one, and is unchanged otherwise; so the
\* direction of a move is never the opposite of that of the previous move.
C2_ReversalRejected ==
    [][\A k \in Keys :
          (Tick(k) \/ TickEat(k)) =>
              /\ direction' =
                    IF /\ KeyDirection(k) # None
                       /\ KeyDirection(k) # Opposite(direction)
                    THEN KeyDirection(k)
                    ELSE direction
              /\ direction' # Opposite(direction)]_vars

\* C2, witness: the snake <<(3,3),(3,2),(3,1)>> moving right has polled
\* LEFT and has moved right
C2_LeftPolledMovedRight ==
    /\ pc = Running
    /\ new_direction = LEFT
    /\ direction = RIGHT
    /\ snake = <<Coord(3, 4), Coord(3, 3), Coord(3, 2)>>

----------------------------------------------------------------------------
(* C3 *)

\* C3: a tick ends in game over exactly when, the snake having moved one
\* cell in the committed direction, the cell after the new head in that same
\* direction is outside the arena or on the moved snake; otherwise the tick
\* draws the frame and the game stays Running.
C3_GameOverTransition ==
    [][TickEnds =>
          /\ snake'[1] = Step(snake[1], direction')
          /\ (pc' = GameOver) <=>
                \/ ~InArena(Step(snake'[1], direction'))
                \/ Step(snake'[1], direction') \in Segments(snake')
          /\ (pc' = Running) <=> ~(pc' = GameOver)
          /\ (pc' = Running) => rendered']_vars

\* C3, witness: the one-segment snake at (0,0) with direction Up is in game
\* over after its first tick (no frame was ever drawn)
C3_CornerUpGameOver ==
    /\ pc = GameOver
    /\ ~rendered
    /\ direction = UP
    /\ snake = <<Coord(0 - 1, 0)>>

----------------------------------------------------------------------------
(* C4 *)

\* C4 (as claimed): the head of the snake the game holds is inside the
\* arena, in every drawn frame and in game over.
C4_HeadInBounds == pc \in {Running, GameOver} => InArena(snake[1])

----------------------------------------------------------------------------
(* C5 *)

----------------------------------------------------------------------------
(* C6 *)

----------------------------------------------------------------------------
(* C7 *)

\* C7: for every direction d and every snake of n >= 1 segments,
\* snake_move(snake, d, can_grow) puts old head + unit vector of d in front
\* of the old segments, which keep their order, and drops the old tail
\* unless can_grow; the length is n + 1 if can_grow and n otherwise, and the
\* new head differs from the old one (the no-op branch is not taken).
C7_MoveLengthLaw ==
    [][pc = CallMove =>
          /\ Step(snake[1], direction) # snake[1]
          /\ snake'[1] = Step(snake[1], direction)
          /\ Len(snake') = IF can_grow THEN Len(snake) + 1 ELSE Len(snake)
          /\ \A i \in 2..Len(snake') : snake'[i] = snake[i - 1]]_vars

\* C7, witness: snake_move has returned a snake longer than any it is
\* called on (it has grown)
C7_MoveHasGrown == pc = MoveReturned /\ Len(snake) = FnMaxLen + 1

----------------------------------------------------------------------------
(* C8 *)

\* C8: can_go_further returns False if and only if the cell after the head
\* in the given direction is outside the arena or is a segment of the snake,
\* the tail included.
C8_CanGoFurther ==
    pc \in {RetTrue, RetFalse} =>
        ((pc = RetFalse) <=>
            \/ ~InArena(Step(snake[1], direction))
            \/ \E i \in 1..Len(snake) : snake[i] = Step(snake[1], direction))

\* C8, witness: can_go_further has returned False for a next head that is
\* inside the arena and on the tail of the snake only
C8_TailBlocks ==
    /\ pc = RetFalse
    /\ Len(snake) >= 3
    /\ InArena(Step(snake[1], direction))
    /\ snake[Len(snake)] = Step(snake[1], direction)
    /\ \A i \in 1..(Len(snake) - 1) : snake[i] # Step(snake[1], direction)

----------------------------------------------------------------------------
(* C9 *)

\* C9: the coordinate Food.random_outside_snake returns is not a segment of
\* the snake passed to it, and its row and its column are at least 5 and at
\* most max_y - 5 and max_x - 5.
C9_SpawnPostcondition ==
    pc = SpawnReturned =>
        /\ food \notin Segments(snake)
        /\ 5 <= food.y /\ food.y <= (window.lines - 1) - 5
        /\ 5 <= food.x /\ food.x <= (window.cols - 1) - 5

\* C9, witness: in the 12 x 12 window, with a snake on three of the four
\* cells between the margins, the fourth has been returned
C9_LastFreeCell ==
    /\ pc = SpawnReturned
    /\ window = [lines |-> 12, cols |-> 12]
    /\ snake = <<Coord(5, 5), Coord(5, 6), Coord(6, 5)>>
    /\ food = Coord(6, 6)

----------------------------------------------------------------------------
(* C10 *)

\* C10 (as claimed): a call of Food.random_outside_snake eventually returns
\* a coordinate or raises.
C10_SpawnTerminates == (pc = CallSpawn) ~> (pc \in {SpawnReturned, Raised})

----------------------------------------------------------------------------
(* C11 *)

\* C11: once the game is over no tick runs any more: the snake, the food and
\* the direction stay as they are, the program stays in game over until it
\* exits, and neither game over nor the exit leads back to Running (so game
\* over is entered at most once).
C11_GameOverTerminal ==
    [][(pc \in {GameOver, Exited}) =>
          (/\ pc' \in {GameOver, Exited}
           /\ (pc = Exited => pc' = Exited)
           /\ snake' = snake
           /\ food' = food
           /\ direction' = direction)]_vars

\* C11, witness: a game that has drawn frames, has grown, is over and has
\* exited on a key
C11_PlayedAndExited == pc = Exited /\ rendered /\ Len(snake) >= 2

----------------------------------------------------------------------------
(* C12 *)

\* C12: the food is replaced only when eaten. A tick that starts with the
\* head off the food's coordinate leaves the food's coordinate, glyph and
\* colour as they are; a tick that starts with the head on it and ends
\* assigns the food once, the new food's glyph and colour being the ones
\* create_random_food chose and its coordinate not the eaten food's; and no
\* step within a tick touches the food before the tick ends.
C12_FoodReplacedOnlyWhenEaten ==
    [][(pc \in {Running, AtEat}) =>
          IF ~TickEnds
          THEN /\ food' = food
               /\ food_image' = food_image
               /\ food_color' = food_color
               /\ replaced' = replaced
          ELSE IF snake[1] = food
          THEN /\ food' # food
               /\ food' # NoCoord
               /\ food_image' = image
               /\ food_color' = color
               /\ replaced' = replaced + 1
          ELSE /\ food' = food
               /\ food_image' = food_image
               /\ food_color' = food_color
               /\ replaced' = replaced]_vars

\* C12, witness: a frame after two foods were eaten, the third food of
\* another glyph and colour than the first choice, the head off the food
C12_ThirdFood ==
    /\ pc = Running
    /\ rendered
    /\ replaced = 2
    /\ food_image = "8"
    /\ food_color = GREEN
    /\ snake[1] # food

----------------------------------------------------------------------------
(* C13 *)

\* the base term of the frame delay: TIC x 1/2 for a horizontal direction,
\* TIC x 1 for a vertical one
BaseDelay(d) == float_scale(TIC, IF d \in {LEFT, RIGHT} THEN -1 ELSE 0)

\* C13 (as claimed): for every direction and every length n >= 1 the frame
\* delay of a snake of n + 1 segments is strictly smaller than that of a
\* snake of n segments, and every frame delay is strictly greater than the
\* base term.
C13_FrameDelayDecreasing ==
    pc = TimeoutReturned =>
        /\ float_less(calculate_frame_timeout(len_snake + 1, direction),
                      timeout)
        /\ float_less(BaseDelay(direction), timeout)

----------------------------------------------------------------------------
(* C14 *)

\* C14: growth accounting. A tick that ends makes the snake one segment
\* longer if the head was on the food's coordinate when the tick started,
\* and leaves its length as it was otherwise; no step makes the snake
\* shorter; and the length of the snake of a game that started with one
\* segment is always 1 + the number of foods replaced so far.
C14_GrowthAccounting ==
    /\ [](Len(snake) = 1 + replaced)
    /\ [][Len(snake') >= Len(snake)]_vars
    /\ [][TickEnds =>
             Len(snake') = Len(snake) + (IF snake[1] = food THEN 1 ELSE 0)]_vars

\* C14, witness: a frame of a snake that has eaten three foods and moved on
C14_ThreeEaten ==
    /\ pc = Running
    /\ rendered
    /\ replaced = 3
    /\ Len(snake) = 4
    /\ snake[2] # food
    /\ snake[1] # food

----------------------------------------------------------------------------
(* C15 *)

\* c lies on an outermost row or column of the window
OnEdge(c) ==
    \/ c.y = 0 \/ c.y = window.lines - 1
    \/ c.x = 0 \/ c.x = window.cols - 1

\* C15: early stop at the arena edge, in a game built by from_curses_window
\* (BORDER = 0, the last row and the last column at least 2). The tick in
\* which the head arrives on an outermost row or column ends in game over;
\* and in every state in which a frame has just been drawn the head is off
\* the outermost rows and columns, and the cell next to the head in the
\* committed direction is in the arena and not on the snake.
C15_EarlyStopAtEdge ==
    /\ [][(TickEnds /\ OnEdge(snake'[1])) => pc' = GameOver]_vars
    /\ [](pc = Running /\ rendered =>
            /\ window.lines - 1 >= 2 /\ window.cols - 1 >= 2
            /\ 1 <= snake[1].y /\ snake[1].y <= (window.lines - 1) - 1
            /\ 1 <= snake[1].x /\ snake[1].x <= (window.cols - 1) - 1
            /\ InArena(Step(snake[1], direction))
            /\ Step(snake[1], direction) \notin Segments(snake))

\* C15, witness: a frame with the head on the last row but one, heading
\* for the last row, which is free
C15_OneRowLeft ==
    /\ pc = Running
    /\ rendered
    /\ snake[1].y = (window.lines - 1) - 1
    /\ direction = DOWN

----------------------------------------------------------------------------
(* C16 *)

\* the absolute value of an integer
Abs(i) == IF i < 0 THEN 0 - i ELSE i

\* the Manhattan distance of two cells
Manhattan(a, b) == Abs(a.y - b.y) + Abs(a.x - b.x)

\* C16: body connectivity, in a game that starts from the one-segment
\* snake. Any two consecutive segments of the snake are at Manhattan
\* distance exactly 1; and every move puts the new head, a cell next to the
\* old head, in front of the segments that survive, which keep their order
\* (so the segments are the cells the head visited last, latest first).
C16_BodyConnected ==
    /\ [](\A i \in 1..(Len(snake) - 1) : Manhattan(snake[i], snake[i + 1]) = 1)
    /\ [][snake' # snake =>
             /\ Manhattan(snake'[1], snake[1]) = 1
             /\ Len(snake') \in {Len(snake), Len(snake) + 1}
             /\ \A i \in 1..(Len(snake') - 1) : snake'[i + 1] = snake[i]]_vars

\* C16, witness: a frame of a snake of four segments with two bends
C16_TwoBends ==
    /\ pc = Running
    /\ rendered
    /\ Len(snake) = 4
    /\ snake[1].y # snake[3].y /\ snake[1].x # snake[3].x
    /\ snake[2].y # snake[4].y /\ snake[2].x # snake[4].x

----------------------------------------------------------------------------
(* C17 *)

\* C17: no step onto the neck. In every tick of a snake of two segments or
\* more, whatever the key polled, the head that snake_move puts in front is
\* not the second segment of the snake before the move: the committed
\* direction is never the opposite of the direction of the previous move,
\* which led from the second segment to the head.
C17_NoStepOntoNeck ==
    [][(TickEnds /\ Len(snake) >= 2) =>
          /\ snake'[1] # snake[2]
          /\ Step(snake[2], Opposite(direction')) # snake[1]]_vars

\* C17, witness: a snake of three segments has just moved with the key of
\* the opposite direction polled: it kept going right after `left'
C17_LeftRefused ==
    /\ pc = Running
    /\ rendered
    /\ Len(snake) = 3
    /\ new_direction = LEFT
    /\ direction = RIGHT
    /\ snake[1] = Step(snake[2], RIGHT)
    /\ snake[2] = Step(snake[3], RIGHT)

----------------------------------------------------------------------------
(* C18 *)

\* the snake has reached the greatest length of the model with its head on
\* the food: the model does not follow the game beyond this state
LengthCapReached == pc = Running /\ Len(snake) = MaxLen /\ snake[1] = food

\* C18: the game ends without input. A tick in which no recognised key is
\* polled keeps the committed direction and moves the head one cell in it;
\* and if from some tick on no recognised key is polled and every food
\* spawn returns, the game of a program that keeps running eventually
\* reaches game over (or the greatest length of the model).
C18_EndsWithoutInput ==
    /\ [][(TickEnds /\ new_direction' = None) =>
             /\ direction' = direction
             /\ snake'[1] = Step(snake[1], direction)]_vars
    /\ ( /\ <>[](new_direction = None)
         /\ [](pc \in {AtConstruct, AtEat} => <>(pc \in {Running, GameOver}))
       ) => <>(pc = GameOver \/ LengthCapReached)

\* C18, witness: the game is over with the head on the last row, below the
\* centre of the window, and no key was ever recognised
C18_FellToTheLastRow ==
    /\ pc = GameOver
    /\ direction = DOWN
    /\ new_direction = None
    /\ replaced = 0
    /\ snake = <<Coord(window.lines - 1, get_window_center(window).x)>>

====
